---------------------------- MODULE Spec2Model ----------------------------
(***************************************************************************)
(* chartForge: conversion of MultiTracks PDF chord charts to ChordPro.     *)
(* Model of scripts/convert_pdf.py (classify_word, extract_metadata,       *)
(* parse_column, parse_page, build_line, format_section_name, convert_pdf) *)
(* and of the reader in scripts/build_index.py.                            *)
(*                                                                         *)
(* Text is a sequence of one-character strings.  A character outside ASCII *)
(* is written as one element naming its code point ("U2500" is the box     *)
(* drawing rule).  Font sizes are in hundredths of a point (1360 = 13.6pt),*)
(* coordinates in whole pixels.                                            *)
(***************************************************************************)
EXTENDS Integers, Sequences, FiniteSets, TLC

VARIABLES
    pc,               \* position in the run of the function under study
    word, role,       \* classify_word: its argument and its result
    name, formatted, reformatted,   \* format_section_name: s, f(s), f(f(s))
    line_data, out_line,            \* build_line: its argument and its result
    \* parse_column: its arguments; its locals lines, the index of the next
    \* row, sections, current_section, and chords (of the row just handled);
    \* its result
    col_words, col_page, col_lines, row_i, col_closed, col_current, row_chords,
    col_sections,
    \* convert_pdf and main: the opened pdf, its path, metadata, the index of
    \* the next page, all_sections, the returned text, the text written;
    \* build_index: the entry of the written file
    pdf, pdf_path, metadata, page_num, all_sections, result, output, song,
    \* the merge pass of parse_column: section['lines'], merged_lines, and
    \* the merged_lines of a second pass over them
    section_lines, merged_lines, merged_again

classifyVars == <<word, role>>
nameVars     == <<name, formatted, reformatted>>
lineVars     == <<line_data, out_line>>
columnVars   == <<col_words, col_page, col_lines, row_i, col_closed,
                 col_current, row_chords, col_sections>>
convertVars  == <<pdf, pdf_path, metadata, page_num, all_sections, result,
                 output, song>>

mergeVars    == <<section_lines, merged_lines, merged_again>>

vars ==
    <<pc, classifyVars, nameVars, lineVars, columnVars, convertVars, mergeVars>>

\* Value of a variable the specification at hand does not use.
None == "None"

ClassifyIdle == word = None /\ role = None
NameIdle     == name = None /\ formatted = None /\ reformatted = None
LineIdle     == line_data = None /\ out_line = None
ColumnIdle   ==
    /\ col_words = None /\ col_page = None /\ col_lines = None
    /\ row_i = None /\ col_closed = None /\ col_current = None
    /\ row_chords = None /\ col_sections = None
ConvertIdle  ==
    /\ pdf = None /\ pdf_path = None /\ metadata = None /\ page_num = None
    /\ all_sections = None /\ result = None /\ output = None /\ song = None
MergeIdle    ==
    section_lines = None /\ merged_lines = None /\ merged_again = None

---------------------------------------------------------------------------
(* Python str and list primitives                                          *)

UpperLetters ==
    <<"A","B","C","D","E","F","G","H","I","J","K","L","M",
      "N","O","P","Q","R","S","T","U","V","W","X","Y","Z">>

LowerLetters ==
    <<"a","b","c","d","e","f","g","h","i","j","k","l","m",
      "n","o","p","q","r","s","t","u","v","w","x","y","z">>

Digits == {"0","1","2","3","4","5","6","7","8","9"}

IsUpperChar(c) == \E i \in 1..26 : UpperLetters[i] = c
IsLowerChar(c) == \E i \in 1..26 : LowerLetters[i] = c
IsCased(c)     == IsUpperChar(c) \/ IsLowerChar(c)

LowerChar(c) ==
    IF IsUpperChar(c)
    THEN LowerLetters[CHOOSE i \in 1..26 : UpperLetters[i] = c]
    ELSE c

UpperChar(c) ==
    IF IsLowerChar(c)
    THEN UpperLetters[CHOOSE i \in 1..26 : LowerLetters[i] = c]
    ELSE c

\* str.lower(), str.upper()
StrLower(s) == [i \in 1..Len(s) |-> LowerChar(s[i])]
StrUpper(s) == [i \in 1..Len(s) |-> UpperChar(s[i])]

\* str.startswith(prefix)
StartsWith(s, prefix) ==
    /\ Len(prefix) <= Len(s)
    /\ SubSeq(s, 1, Len(prefix)) = prefix

\* str.endswith(suffix)
EndsWith(s, suffix) ==
    /\ Len(suffix) <= Len(s)
    /\ SubSeq(s, Len(s) - Len(suffix) + 1, Len(s)) = suffix

\* `sub in s`
Contains(s, sub) ==
    \E i \in 0..(Len(s) - Len(sub)) : SubSeq(s, i + 1, i + Len(sub)) = sub

\* str.find(sub): 0-based offset of the first occurrence, -1 when absent
Find(s, sub) ==
    IF Contains(s, sub)
    THEN CHOOSE i \in 0..(Len(s) - Len(sub)) :
            /\ SubSeq(s, i + 1, i + Len(sub)) = sub
            /\ \A j \in 0..(i - 1) : SubSeq(s, j + 1, j + Len(sub)) # sub
    ELSE -1

\* str.isdigit(): non-empty and every character a digit
IsDigitStr(s) == Len(s) > 0 /\ \A i \in 1..Len(s) : s[i] \in Digits

IsSpace(c) == c \in {" ", "\t", "\n"}

\* str.strip()
RECURSIVE LStrip(_)
LStrip(s) == IF Len(s) > 0 /\ IsSpace(s[1]) THEN LStrip(Tail(s)) ELSE s

RECURSIVE RStrip(_)
RStrip(s) ==
    IF Len(s) > 0 /\ IsSpace(s[Len(s)])
    THEN RStrip(SubSeq(s, 1, Len(s) - 1))
    ELSE s

Strip(s) == LStrip(RStrip(s))

\* sep.join(parts)
RECURSIVE Join(_, _)
Join(parts, sep) ==
    IF Len(parts) = 0 THEN <<>>
    ELSE IF Len(parts) = 1 THEN parts[1]
    ELSE parts[1] \o sep \o Join(Tail(parts), sep)

\* [f(e) for e in s if keep(e)] for the identity f
RECURSIVE SelectSeqBy(_, _)
SelectSeqBy(s, keep) ==
    IF Len(s) = 0 THEN <<>>
    ELSE IF keep[1] THEN <<s[1]>> \o SelectSeqBy(Tail(s), Tail(keep))
    ELSE SelectSeqBy(Tail(s), Tail(keep))

\* sorted(s, key=...): stable insertion sort; Key is a sequence of integer
\* tuples <<k1, k2>> compared lexicographically
KeyLE(a, b) == a[1] < b[1] \/ (a[1] = b[1] /\ a[2] <= b[2])

RECURSIVE InsertSorted(_, _, _)
InsertSorted(e, k, sorted) ==
    \* sorted is a sequence of <<element, key>>; e goes after every element
    \* whose key is <= k (stability)
    IF Len(sorted) = 0 THEN <<<<e, k>>>>
    ELSE IF KeyLE(sorted[1][2], k)
         THEN <<sorted[1]>> \o InsertSorted(e, k, Tail(sorted))
         ELSE <<<<e, k>>>> \o sorted

RECURSIVE SortPairs(_, _)
SortPairs(s, keys) ==
    IF Len(s) = 0 THEN <<>>
    ELSE InsertSorted(s[Len(s)], keys[Len(s)],
                      SortPairs(SubSeq(s, 1, Len(s) - 1),
                                SubSeq(keys, 1, Len(s) - 1)))

SortedBy(s, keys) ==
    LET p == SortPairs(s, keys) IN [i \in 1..Len(s) |-> p[i][1]]

---------------------------------------------------------------------------
(* classify_word                                                           *)

\* 'Bold' and 'Regular', the substrings looked for in the font name
BoldMark    == <<"B","o","l","d">>
RegularMark == <<"R","e","g","u","l","a","r">>

chord_modifier_patterns ==
    << <<"s","u","s">>, <<"a","d","d">>, <<"m","a","j">>, <<"m","i","n">>,
       <<"d","i","m">>, <<"a","u","g">>, <<"m">> >>

is_modifier(text) ==
    \/ \E i \in 1..Len(chord_modifier_patterns) :
          StartsWith(StrLower(text), chord_modifier_patterns[i])
    \/ IsDigitStr(text)

\* the dynamics size test of line 73, written 12.0 <= size <= 13.0
dynamics_size_inclusive(size) == 1200 <= size /\ size <= 1300

\* 12.0 <= size < 13.0
dynamics_size(size) == 1200 <= size /\ size < 1300

small_bold_role(text) == IF is_modifier(text) THEN "chord_modifier" ELSE "badge"

classify_word(w) ==
    LET fontname   == w.fontname
        size       == w.size
        text       == w.text
        is_bold    == Contains(fontname, BoldMark)
        is_regular == Contains(fontname, RegularMark) \/ ~is_bold
    IN  IF is_bold /\ 900 <= size /\ size <= 1100 THEN small_bold_role(text)
        ELSE IF is_bold /\ 1400 <= size /\ size <= 1600 THEN "section_name"
        ELSE IF is_bold /\ StartsWith(text, <<"/">>) THEN "bass_note"
        ELSE IF is_bold /\ 1300 <= size /\ size <= 1400 /\ text = <<"m">>
             THEN "chord_modifier"
        ELSE IF is_bold /\ 1300 <= size /\ size <= 1400 THEN "chord"
        ELSE IF is_regular /\ dynamics_size(size) THEN "dynamics"
        ELSE IF is_regular /\ 1300 <= size /\ size <= 1400 THEN "lyric"
        ELSE IF is_bold /\ size > 2000 THEN "title"
        ELSE IF size < 1200 THEN "meta"
        ELSE "unknown"

\* Font names: bold, regular, neither mark, both marks
FontBold        == <<"B","o","l","d">>
FontRegular     == <<"R","e","g","u","l","a","r">>
FontBook        == <<"B","o","o","k">>
FontBoldRegular == <<"B","o","l","d","R","e","g","u","l","a","r">>

ClassifyFonts == {FontBold, FontRegular, FontBook, FontBoldRegular}

\* both sides of every threshold of classify_word, and interior points
ClassifySizes ==
    {899, 900, 1020, 1100, 1101, 1199, 1200, 1250, 1299, 1300, 1301, 1360,
     1399, 1400, 1401, 1480, 1600, 1601, 2000, 2001}

ClassifyTexts ==
    { <<"m">>, <<"M","i","d">>, <<"m","y">>, <<"s","u","s","4">>,
      <<"M","a","j","7">>, <<"a","d","d","9">>, <<"1">>, <<"1","2">>,
      <<"V","1">>, <<"C">>, <<"G">>, <<"/","B">>, <<"g","r","a","c","e">>,
      <<>> }

Token(text, x0, top, fontname, size) ==
    [text |-> text, x0 |-> x0, top |-> top, bottom |-> top + (size \div 100),
     fontname |-> fontname, size |-> size]

ClassifyInit ==
    /\ pc = "classify"
    /\ \E f \in ClassifyFonts, s \in ClassifySizes, t \in ClassifyTexts :
          word = Token(t, 0, 0, f, s)
    /\ role = None
    /\ NameIdle
    /\ LineIdle
    /\ ColumnIdle /\ ConvertIdle /\ MergeIdle

Classify ==
    /\ pc = "classify"
    /\ role' = classify_word(word)
    /\ pc' = "classified"
    /\ UNCHANGED <<word, nameVars, lineVars, columnVars, convertVars,
                 mergeVars>>

ClassifyNext == Classify

SpecClassify == ClassifyInit /\ [][ClassifyNext]_vars


(* The ordered rule table of the classifier, first match wins.  b is the   *)
(* bold flag, nb the flag rules 6 and 7 test, dyn the size test of rule 6. *)
RuleApplies(i, b, nb, dyn, size, text) ==
    CASE i = 1  -> b /\ 900 <= size /\ size <= 1100
      [] i = 2  -> b /\ 1400 <= size /\ size <= 1600
      [] i = 3  -> b /\ Len(text) > 0 /\ text[1] = "/"
      [] i = 4  -> b /\ 1300 <= size /\ size <= 1400 /\ text = <<"m">>
      [] i = 5  -> b /\ 1300 <= size /\ size <= 1400
      [] i = 6  -> nb /\ dyn
      [] i = 7  -> nb /\ 1300 <= size /\ size <= 1400
      [] i = 8  -> b /\ size > 2000
      [] i = 9  -> size < 1200
      [] i = 10 -> TRUE

RuleRoles(i) ==
    CASE i = 1  -> {"chord_modifier", "badge"}
      [] i = 2  -> {"section_name"}
      [] i = 3  -> {"bass_note"}
      [] i = 4  -> {"chord_modifier"}
      [] i = 5  -> {"chord"}
      [] i = 6  -> {"dynamics"}
      [] i = 7  -> {"lyric"}
      [] i = 8  -> {"title"}
      [] i = 9  -> {"meta"}
      [] i = 10 -> {"unknown"}

FirstRule(b, nb, dyn, size, text) ==
    CHOOSE i \in 1..10 :
        /\ RuleApplies(i, b, nb, dyn, size, text)
        /\ \A j \in 1..(i - 1) : ~RuleApplies(j, b, nb, dyn, size, text)

WordIsBold == Contains(word.fontname, BoldMark)
WordHasRegularMark == Contains(word.fontname, RegularMark)

IsExtensionKeyword(text) ==
    \/ \E k \in { <<"s","u","s">>, <<"a","d","d">>, <<"m","a","j">>,
                  <<"m","i","n">>, <<"d","i","m">>, <<"a","u","g">> } :
          StartsWith(StrLower(text), k)
    \/ StrLower(text) = <<"m">>
    \/ IsDigitStr(text)

---------------------------------------------------------------------------
(* format_section_name                                                     *)

\* the character class [U+2500 U+2501 U+2014 U+2013 -] of the rule-line regex
RuleChars == {"U2500", "U2501", "U2014", "U2013", "-"}

\* re.sub(r'[rule chars]+$', '', name): drop the run of rule characters that
\* ends the string
RECURSIVE StripTrailingRule(_)
StripTrailingRule(s) ==
    IF Len(s) > 0 /\ s[Len(s)] \in RuleChars
    THEN StripTrailingRule(SubSeq(s, 1, Len(s) - 1))
    ELSE s

\* re.search(r'(\d+)\s*$', name).start() + 1 for a name without trailing
\* white space: the first position of the run of digits that ends the string;
\* Len(s) + 1 when the string does not end in a digit (no match)
RECURSIVE TrailingDigitsStart(_)
TrailingDigitsStart(s) ==
    IF Len(s) > 0 /\ s[Len(s)] \in Digits
    THEN TrailingDigitsStart(SubSeq(s, 1, Len(s) - 1))
    ELSE Len(s) + 1

\* number suffix search on any string: trailing white space is skipped by \s*
NumMatchStart(s) == TrailingDigitsStart(RStrip(s))
NumMatchFound(s) == NumMatchStart(s) <= Len(RStrip(s))

\* str.title(): a cased character is upper-cased when it follows an uncased
\* character (or starts the string) and lower-cased otherwise
StrTitle(s) ==
    [i \in 1..Len(s) |->
        IF i = 1 \/ ~IsCased(s[i - 1]) THEN UpperChar(s[i]) ELSE LowerChar(s[i])]

name_map ==
    << <<<<"I","N","T","R","O">>, <<"I","n","t","r","o">>>>,
       <<<<"V","E","R","S","E">>, <<"V","e","r","s","e">>>>,
       <<<<"C","H","O","R","U","S">>, <<"C","h","o","r","u","s">>>>,
       <<<<"P","R","E"," ","C","H","O","R","U","S">>, <<"P","r","e"," ","C","h","o","r","u","s">>>>,
       <<<<"P","R","E","-","C","H","O","R","U","S">>, <<"P","r","e"," ","C","h","o","r","u","s">>>>,
       <<<<"B","R","I","D","G","E">>, <<"B","r","i","d","g","e">>>>,
       <<<<"B","R","E","A","K","D","O","W","N">>, <<"B","r","e","a","k","d","o","w","n">>>>,
       <<<<"I","N","T","E","R","L","U","D","E">>, <<"I","n","t","e","r","l","u","d","e">>>>,
       <<<<"I","N","S","T","R","U","M","E","N","T","A","L">>, <<"I","n","s","t","r","u","m","e","n","t","a","l">>>>,
       <<<<"V","A","M","P">>, <<"V","a","m","p">>>>,
       <<<<"T","A","G">>, <<"T","a","g">>>>,
       <<<<"R","E","F","R","A","I","N">>, <<"R","e","f","r","a","i","n">>>>,
       <<<<"E","N","D","I","N","G">>, <<"E","n","d","i","n","g">>>>,
       <<<<"O","U","T","R","O">>, <<"O","u","t","r","o">>>>,
       <<<<"T","U","R","N","A","R","O","U","N","D">>, <<"T","u","r","n","a","r","o","u","n","d">>>>,
       <<<<"H","A","L","F","-","C","H","O","R","U","S">>, <<"H","a","l","f","-","C","h","o","r","u","s">>>> >>

NameMapHas(k) == \E i \in 1..Len(name_map) : name_map[i][1] = k
NameMapGet(k) == name_map[CHOOSE i \in 1..Len(name_map) : name_map[i][1] = k][2]

\* line 442: one trailing run of rule characters is removed, then white space
strip_rule_line(s) == Strip(StripTrailingRule(s))

format_section_name(n) ==
    LET n1 == Strip(n)
        n2 == strip_rule_line(n1)
        found  == NumMatchFound(n2)
        start  == NumMatchStart(n2)
        number == IF found
                  THEN <<" ">> \o SubSeq(RStrip(n2), start, Len(RStrip(n2)))
                  ELSE <<>>
        n3 == IF found THEN Strip(SubSeq(n2, 1, start - 1)) ELSE n2
        upper_name == StrUpper(n3)
        formatted_ == IF NameMapHas(upper_name) THEN NameMapGet(upper_name)
                      ELSE StrTitle(n3)
    IN  formatted_ \o number

MaxNameLen == 4

NameAlphabet == {"a", "B", "-", "U2500", " ", "1"}

RECURSIVE SeqsUpTo(_, _)
SeqsUpTo(S, n) ==
    IF n = 0 THEN {<<>>}
    ELSE LET shorter == SeqsUpTo(S, n - 1)
         IN  shorter \cup {Append(s, c) : s \in {t \in shorter : Len(t) = n - 1},
                                          c \in S}

NameCHORUS    == <<"C","H","O","R","U","S">>
NameVERSE2    == <<"V","E","R","S","E"," ","2">>
NamePRECHORUS == <<"P","R","E","-","C","H","O","R","U","S">>
NameOutroRule == <<"O","u","t","r","o"," "," ","U2500","U2500">>
NameOutroTwoRules == <<"O","U","T","R","O"," ","U2500","U2500"," ","U2500","U2500">>

NameExamples ==
    {NameCHORUS, NameVERSE2, NamePRECHORUS, NameOutroRule, NameOutroTwoRules}

NameInputs == SeqsUpTo(NameAlphabet, MaxNameLen) \cup NameExamples

NameInit ==
    /\ pc = "format"
    /\ name \in NameInputs
    /\ formatted = None /\ reformatted = None
    /\ ClassifyIdle
    /\ LineIdle
    /\ ColumnIdle /\ ConvertIdle /\ MergeIdle

FormatName ==
    /\ pc = "format"
    /\ formatted' = format_section_name(name)
    /\ pc' = "formatted"
    /\ UNCHANGED <<name, reformatted, classifyVars, lineVars, columnVars,
                   convertVars,
                 mergeVars>>

FormatAgain ==
    /\ pc = "formatted"
    /\ reformatted' = format_section_name(formatted)
    /\ pc' = "reformatted"
    /\ UNCHANGED <<name, formatted, classifyVars, lineVars, columnVars,
                   convertVars,
                 mergeVars>>

NameNext == FormatName \/ FormatAgain

SpecName == NameInit /\ [][NameNext]_vars

\* C7 (as claimed): format_section_name is idempotent, f(f(s)) = f(s) for
\* every s, and "CHORUS" gives "Chorus", "VERSE 2" gives "Verse 2",
\* "PRE-CHORUS" gives "Pre Chorus", "Outro  <rule><rule>" gives "Outro".
C7_Idempotent ==
    /\ pc = "reformatted" => reformatted = formatted
    /\ (pc # "format" /\ name = NameCHORUS) => formatted = <<"C","h","o","r","u","s">>
    /\ (pc # "format" /\ name = NameVERSE2) => formatted = <<"V","e","r","s","e"," ","2">>
    /\ (pc # "format" /\ name = NamePRECHORUS) => formatted = <<"P","r","e"," ","C","h","o","r","u","s">>
    /\ (pc # "format" /\ name = NameOutroRule) => formatted = <<"O","u","t","r","o">>

\* The table examples of C7 alone, which the code satisfies.
C7_Examples ==
    /\ (pc # "format" /\ name = NameCHORUS) => formatted = <<"C","h","o","r","u","s">>
    /\ (pc # "format" /\ name = NameVERSE2) => formatted = <<"V","e","r","s","e"," ","2">>
    /\ (pc # "format" /\ name = NamePRECHORUS) => formatted = <<"P","r","e"," ","C","h","o","r","u","s">>
    /\ (pc # "format" /\ name = NameOutroRule) => formatted = <<"O","u","t","r","o">>


---------------------------------------------------------------------------
(* build_line                                                              *)

\* f"[{c['text']}]"
Bracketed(c) == <<"[">> \o c.text \o <<"]">>

SortByX(spans) == SortedBy(spans, [i \in 1..Len(spans) |-> <<spans[i].x, 0>>])

\* the loop of lines 423-432: result list after the lyrics from index li on
\* have been handled with chords from index ci on still unconsumed
RECURSIVE MergeByX(_, _, _, _)
MergeByX(chords, lyrics, ci, li) ==
    IF li > Len(lyrics)
    THEN [i \in 1..(Len(chords) - ci + 1) |-> Bracketed(chords[ci + i - 1])]
    ELSE IF ci <= Len(chords) /\ chords[ci].x <= lyrics[li].x + 15
         THEN <<Bracketed(chords[ci])>> \o MergeByX(chords, lyrics, ci + 1, li)
         ELSE <<lyrics[li].text>> \o MergeByX(chords, lyrics, ci, li + 1)

build_line(ld) ==
    LET chords == ld.chords
        lyrics == ld.lyrics
    IN  IF Len(chords) = 0 /\ Len(lyrics) = 0 THEN <<>>
        ELSE IF Len(chords) = 0
             THEN LET s == SortByX(lyrics)
                  IN  Join([i \in 1..Len(s) |-> s[i].text], <<" ">>)
        ELSE IF Len(lyrics) = 0
             THEN LET s == SortByX(chords)
                  IN  Join([i \in 1..Len(s) |-> Bracketed(s[i])], <<" ">>)
        ELSE Join(MergeByX(SortByX(chords), SortByX(lyrics), 1, 1), <<" ">>)

MaxChords == 2
MaxLyrics == 2

TextG    == <<"G">>
TextD    == <<"D">>
TextAmaz == <<"A","m","a","z">>
TextIng  == <<"i","n","g">>

LineChordSpans == {[text |-> t, x |-> x] : t \in {TextG, TextD},
                                           x \in {8, 25, 26, 42}}
LineLyricSpans == {[text |-> t, x |-> x] : t \in {TextAmaz, TextIng},
                                           x \in {10, 40}}

LineInit ==
    /\ pc = "build"
    /\ \E cs \in SeqsUpTo(LineChordSpans, MaxChords),
          ls \in SeqsUpTo(LineLyricSpans, MaxLyrics) :
          line_data = [chords |-> cs, lyrics |-> ls]
    /\ out_line = None
    /\ ClassifyIdle
    /\ NameIdle
    /\ ColumnIdle /\ ConvertIdle /\ MergeIdle

BuildLine ==
    /\ pc = "build"
    /\ out_line' = build_line(line_data)
    /\ pc' = "built"
    /\ UNCHANGED <<line_data, classifyVars, nameVars, columnVars, convertVars,
                 mergeVars>>

LineNext == BuildLine

SpecLine == LineInit /\ [][LineNext]_vars

(* The interleaving law stated from the positions alone.  With both lists  *)
(* in x order, chord i belongs to the first lyric k whose x + 15 is at     *)
(* least the chord's x, and is left over when there is none.               *)
Owner(chords, lyrics, i) ==
    IF \E k \in 1..Len(lyrics) : chords[i].x <= lyrics[k].x + 15
    THEN CHOOSE k \in 1..Len(lyrics) :
            /\ chords[i].x <= lyrics[k].x + 15
            /\ \A j \in 1..(k - 1) : chords[i].x > lyrics[j].x + 15
    ELSE 0

ChordsOf(chords, lyrics, k) ==
    LET keep == [i \in 1..Len(chords) |-> Owner(chords, lyrics, i) = k]
        mine == SelectSeqBy(chords, keep)
    IN  [i \in 1..Len(mine) |-> Bracketed(mine[i])]

\* the groups of a mixed line: each lyric with its chords in front, joined by
\* sep, then every left-over chord as a group of its own
LineGroups(chords, lyrics, sep) ==
    [k \in 1..Len(lyrics) |->
        Join(ChordsOf(chords, lyrics, k) \o <<lyrics[k].text>>, sep)]
    \o ChordsOf(chords, lyrics, 0)

IsMixedLine == Len(line_data.chords) > 0 /\ Len(line_data.lyrics) > 0

LineAmazing ==
    [chords |-> <<[text |-> TextG, x |-> 8], [text |-> TextD, x |-> 42]>>,
     lyrics |-> <<[text |-> TextAmaz, x |-> 10], [text |-> TextIng, x |-> 40]>>]

\* C2 (as claimed): for a line with chords and lyrics, each lyric in x order
\* is preceded directly, with no separator, by the bracketed chords whose
\* x <= lyric.x + 15 and that no earlier lyric took; the groups are separated
\* by one space and left-over chords follow; lyrics Amaz@10, ing@40 with
\* chords G@8, D@42 give "[G]Amaz [D]ing".
C2_ChordDirectlyBeforeLyric ==
    /\ (pc = "built" /\ IsMixedLine) =>
          out_line = Join(LineGroups(SortByX(line_data.chords),
                                     SortByX(line_data.lyrics), <<>>), <<" ">>)
    /\ (pc = "built" /\ line_data = LineAmazing) => out_line = <<"[","G","]","A","m","a","z"," ","[","D","]","i","n","g">>

\* What build_line does on a mixed line: the same groups, with one space
\* between a bracketed chord and what follows it.
BuildLineSpaceSeparated ==
    /\ (pc = "built" /\ IsMixedLine) =>
          out_line = Join(LineGroups(SortByX(line_data.chords),
                                     SortByX(line_data.lyrics), <<" ">>), <<" ">>)
    /\ (pc = "built" /\ line_data = LineAmazing) => out_line = <<"[","G","]"," ","A","m","a","z"," ","[","D","]"," ","i","n","g">>


---------------------------------------------------------------------------
(* parse_column                                                            *)

\* Python None / a value, as a sequence of length 0 / 1
NoValue == <<>>
Some(v) == <<v>>
IsSome(o) == Len(o) = 1

Abs(n) == IF n < 0 THEN 0 - n ELSE n

\* s.replace(sharp sign, '#').replace(flat sign, 'b').replace(' ', '') if s
normalize_chord(s) ==
    LET mapped == [i \in 1..Len(s) |->
                      IF s[i] = "U266F" THEN "#"
                      ELSE IF s[i] = "U266D" THEN "b" ELSE s[i]]
    IN  SelectSeqBy(mapped, [i \in 1..Len(s) |-> mapped[i] # " "])

SortByX0(ws) == SortedBy(ws, [i \in 1..Len(ws) |-> <<ws[i].x0, 0>>])
SortByTopX0(ws) == SortedBy(ws, [i \in 1..Len(ws) |-> <<ws[i].top, ws[i].x0>>])

\* the row tolerance of line 168
RowTolerance == 6

\* lines 167-177: rows of words whose top is within 6 of the row's reference y
RECURSIVE GroupLoop(_, _, _, _)
GroupLoop(ws, lines, current_line, current_y) ==
    IF Len(ws) = 0
    THEN IF Len(current_line) > 0
         THEN Append(lines, SortByX0(current_line)) ELSE lines
    ELSE LET w == ws[1]
         IN  IF ~IsSome(current_y) \/ Abs(w.top - current_y[1]) <= RowTolerance
             THEN GroupLoop(Tail(ws), lines, Append(current_line, w),
                            \* current_y = current_y or w['top']
                            IF ~IsSome(current_y) \/ current_y[1] = 0
                            THEN Some(w.top) ELSE current_y)
             ELSE GroupLoop(Tail(ws),
                            IF Len(current_line) > 0
                            THEN Append(lines, SortByX0(current_line))
                            ELSE lines,
                            <<w>>, Some(w.top))

group_lines(ws) == GroupLoop(SortByTopX0(ws), <<>>, <<>>, NoValue)

\* [w for w, c in classified if c == cls]
OfClass(row, cls) ==
    SelectSeqBy(row, [i \in 1..Len(row) |-> classify_word(row[i]) = cls])

TextsOf(ws) == [i \in 1..Len(ws) |-> ws[i].text]

\* line 191: the row starts with a badge followed by a section name
is_header_row(row) ==
    /\ Len(row) >= 2
    /\ classify_word(row[1]) = "badge"
    /\ classify_word(row[2]) = "section_name"

\* lines 226 and 246: the largest offset, exclusive, at which a modifier or a
\* bass note still attaches
ModifierMaxDist == 25
BassMaxDist == 50

\* lines 227-232 and 247-251: index of the chord at the smallest positive
\* offset below best_dist to the left of x (the first such chord in row
\* order), 0 when there is none
RECURSIVE BestChord(_, _, _, _, _)
BestChord(raw_chords, x, i, best_i, best_dist) ==
    IF i > Len(raw_chords) THEN best_i
    ELSE LET dist == x - raw_chords[i].x0
         IN  IF 0 < dist /\ dist < best_dist
             THEN BestChord(raw_chords, x, i + 1, i, dist)
             ELSE BestChord(raw_chords, x, i + 1, best_i, best_dist)

\* a dict as a function; d[k] = d.get(k, default) with k added
DictHas(d, k) == k \in DOMAIN d
DictPut(d, k, v) == [j \in (DOMAIN d) \cup {k} |-> IF j = k THEN v ELSE d[j]]
EmptyDict == [j \in {} |-> <<>>]

\* page.objects.get('curve', []) of a page, none for page=None
Curves(page) == IF IsSome(page) THEN page[1].curves ELSE {}

\* detect_sharp_curves
detect_sharp_curves(page, chord_x, chord_y, modifier_x) ==
    \E curve \in Curves(page) :
        /\ chord_x < curve.x0 /\ curve.x0 < modifier_x
        /\ Abs(curve.top - chord_y) < 10

\* lines 220-239: state <<chord_modifiers, chord_has_sharp>> after the
\* modifiers from index i on
RECURSIVE AssignModifiers(_, _, _, _, _, _)
AssignModifiers(raw_chords, modifiers, page, i, chord_modifiers, chord_has_sharp) ==
    IF i > Len(modifiers) THEN <<chord_modifiers, chord_has_sharp>>
    ELSE LET mod_w == modifiers[i]
             best  == BestChord(raw_chords, mod_w.x0, 1, 0, ModifierMaxDist)
         IN  IF best = 0
             THEN AssignModifiers(raw_chords, modifiers, page, i + 1,
                                  chord_modifiers, chord_has_sharp)
             ELSE LET best_chord_x == raw_chords[best].x0
                      old == IF DictHas(chord_modifiers, best_chord_x)
                             THEN chord_modifiers[best_chord_x] ELSE <<>>
                      sharp == /\ IsSome(page)
                               /\ detect_sharp_curves(page, best_chord_x,
                                        raw_chords[best].top, mod_w.x0)
                  IN  AssignModifiers(raw_chords, modifiers, page, i + 1,
                          DictPut(chord_modifiers, best_chord_x,
                                  Append(old, mod_w.text)),
                          IF sharp THEN chord_has_sharp \cup {best_chord_x}
                          ELSE chord_has_sharp)

\* lines 242-253: chord_bass after the bass notes from index i on
RECURSIVE AssignBass(_, _, _, _)
AssignBass(raw_chords, bass_notes, i, chord_bass) ==
    IF i > Len(bass_notes) THEN chord_bass
    ELSE LET best == BestChord(raw_chords, bass_notes[i].x0, 1, 0, BassMaxDist)
         IN  IF best = 0
             THEN AssignBass(raw_chords, bass_notes, i + 1, chord_bass)
             ELSE AssignBass(raw_chords, bass_notes, i + 1,
                             DictPut(chord_bass, raw_chords[best].x0,
                                     bass_notes[i].text))

\* lines 256-266: sharps of chords without modifier, a curve within 15px
RECURSIVE StandaloneSharps(_, _, _, _, _)
StandaloneSharps(raw_chords, page, i, chord_modifiers, chord_has_sharp) ==
    IF i > Len(raw_chords) THEN chord_has_sharp
    ELSE LET chord_w == raw_chords[i]
             chord_x == chord_w.x0
             found == /\ ~DictHas(chord_modifiers, chord_x)
                      /\ chord_x \notin chord_has_sharp
                      /\ IsSome(page)
                      /\ \E curve \in Curves(page) :
                            /\ chord_x < curve.x0 /\ curve.x0 < chord_x + 15
                            /\ Abs(curve.top - chord_w.top) < 10
         IN  StandaloneSharps(raw_chords, page, i + 1, chord_modifiers,
                              IF found THEN chord_has_sharp \cup {chord_x}
                              ELSE chord_has_sharp)

\* lines 211-281: the chords of a row with sharps, modifiers and bass notes
\* attached, as [text, x0] in row order
assemble_chords(row, page) ==
    LET raw_chords == OfClass(row, "chord")
        modifiers  == OfClass(row, "chord_modifier")
        bass_notes == OfClass(row, "bass_note")
        am == AssignModifiers(raw_chords, modifiers, page, 1, EmptyDict, {})
        chord_modifiers == am[1]
        chord_bass == AssignBass(raw_chords, bass_notes, 1, EmptyDict)
        chord_has_sharp ==
            StandaloneSharps(raw_chords, page, 1, chord_modifiers, am[2])
    IN  [i \in 1..Len(raw_chords) |->
            LET chord_x == raw_chords[i].x0
            IN  [text |-> raw_chords[i].text
                          \o (IF chord_x \in chord_has_sharp THEN <<"#">> ELSE <<>>)
                          \o (IF DictHas(chord_modifiers, chord_x)
                              THEN Join(chord_modifiers[chord_x], <<>>) ELSE <<>>)
                          \o (IF DictHas(chord_bass, chord_x)
                              THEN chord_bass[chord_x] ELSE <<>>),
                 x0 |-> chord_x]]

DynamicsLine(text) ==
    [type |-> "dynamics", text |-> text, chords |-> <<>>, lyrics |-> <<>>]
ChordLine(chords, lyrics) ==
    [type |-> "chords", text |-> <<>>, chords |-> chords, lyrics |-> lyrics]

\* truth value of an optional string
Truthy(o) == IsSome(o) /\ Len(o[1]) > 0

\* lines 193-194 and 302-303: the open section is kept when it has lines
close_section(sections, current_section) ==
    IF IsSome(current_section) /\ Len(current_section[1].lines) > 0
    THEN Append(sections, current_section[1])
    ELSE sections

\* lines 179-300, one pass of the loop body: st = [sections, current_section]
process_row(st, row, page) ==
    IF Len(row) = 0 THEN st
    ELSE IF is_header_row(row)
    THEN LET section_parts == TextsOf(OfClass(row, "section_name"))
             section_name == format_section_name(Join(section_parts, <<" ">>))
             dynamics_parts == TextsOf(OfClass(row, "dynamics"))
             dynamics == IF Len(dynamics_parts) > 0
                         THEN Some(Join(dynamics_parts, <<" ">>)) ELSE NoValue
         IN  [sections |-> close_section(st.sections, st.current_section),
              current_section |-> Some([name |-> section_name,
                                        dynamics |-> dynamics,
                                        lines |-> <<>>])]
    ELSE IF ~IsSome(st.current_section) THEN st
    ELSE LET cur == st.current_section[1]
             lyrics == OfClass(row, "lyric")
             dynamics_words == TextsOf(OfClass(row, "dynamics"))
             chords == assemble_chords(row, page)
         IN  IF Len(dynamics_words) > 0 /\ Len(chords) = 0 /\ Len(lyrics) = 0
             THEN LET dyn_text == Join(dynamics_words, <<" ">>)
                  IN  IF Len(cur.lines) = 0
                      THEN [st EXCEPT !.current_section =
                               Some([cur EXCEPT !.dynamics =
                                   IF Truthy(cur.dynamics)
                                   THEN Some(cur.dynamics[1] \o <<" ","-"," ">> \o dyn_text)
                                   ELSE Some(dyn_text)])]
                      ELSE [st EXCEPT !.current_section =
                               Some([cur EXCEPT !.lines =
                                   Append(cur.lines, DynamicsLine(dyn_text))])]
             ELSE IF Len(chords) > 0 \/ Len(lyrics) > 0
             THEN [st EXCEPT !.current_section =
                      Some([cur EXCEPT !.lines = Append(cur.lines,
                          ChordLine(
                            [i \in 1..Len(chords) |->
                                [text |-> normalize_chord(chords[i].text),
                                 x |-> chords[i].x0]],
                            [i \in 1..Len(lyrics) |->
                                [text |-> lyrics[i].text, x |-> lyrics[i].x0]]))])]
             ELSE st

merged_line_next_first(line, next_line) ==
    ChordLine(next_line.chords \o line.chords, next_line.lyrics)

\* lines 327-330: the line that replaces a chord-only line and its successor
merged_line(line, next_line) ==
    ChordLine(line.chords \o next_line.chords, next_line.lyrics)

\* lines 307-337: the merge pass over the lines of one section, from index i
RECURSIVE MergeLoop(_, _)
MergeLoop(lines, i) ==
    IF i > Len(lines) THEN <<>>
    ELSE LET line == lines[i]
         IN  IF line.type = "dynamics"
             THEN <<line>> \o MergeLoop(lines, i + 1)
             ELSE IF /\ Len(line.chords) > 0 /\ Len(line.lyrics) = 0
                     /\ i + 1 <= Len(lines)
                     /\ lines[i + 1].type # "dynamics"
                     /\ Len(lines[i + 1].lyrics) > 0
                  THEN <<merged_line(line, lines[i + 1])>>
                       \o MergeLoop(lines, i + 2)
                  ELSE <<line>> \o MergeLoop(lines, i + 1)

merge_lines(lines) == MergeLoop(lines, 1)

merge_sections(sections) ==
    [k \in 1..Len(sections) |->
        [sections[k] EXCEPT !.lines = merge_lines(sections[k].lines)]]

RECURSIVE RowLoop(_, _, _, _)
RowLoop(lines, i, st, page) ==
    IF i > Len(lines) THEN st
    ELSE RowLoop(lines, i + 1, process_row(st, lines[i], page), page)

parse_column(ws, page) ==
    IF Len(ws) = 0 THEN <<>>
    ELSE LET st == RowLoop(group_lines(ws), 1,
                           [sections |-> <<>>, current_section |-> NoValue],
                           page)
         IN  merge_sections(close_section(st.sections, st.current_section))


(* Rows of a column, as templates placed at a row's top: dtop is the       *)
(* token's offset below it.                                                *)
HdrChorus ==
    << [text |-> <<"C">>, x0 |-> 40, dtop |-> 0, fontname |-> FontBold, size |-> 1020],
       [text |-> <<"C","H","O","R","U","S">>, x0 |-> 60, dtop |-> 0, fontname |-> FontBold, size |-> 1480] >>

HdrVerse2 ==
    << [text |-> <<"V","1">>, x0 |-> 40, dtop |-> 0, fontname |-> FontBold, size |-> 1020],
       [text |-> <<"V","E","R","S","E">>, x0 |-> 60, dtop |-> 0, fontname |-> FontBold, size |-> 1480],
       [text |-> <<"2">>, x0 |-> 110, dtop |-> 0, fontname |-> FontBold, size |-> 1480] >>

HdrRule ==
    << [text |-> <<"C">>, x0 |-> 40, dtop |-> 0, fontname |-> FontBold, size |-> 1020],
       [text |-> <<"U2500","U2500">>, x0 |-> 60, dtop |-> 0, fontname |-> FontBold, size |-> 1480] >>

HdrDyn ==
    << [text |-> <<"B">>, x0 |-> 40, dtop |-> 0, fontname |-> FontBold, size |-> 1020],
       [text |-> <<"B","R","I","D","G","E">>, x0 |-> 60, dtop |-> 0, fontname |-> FontBold, size |-> 1480],
       [text |-> <<"B","u","i","l","d">>, x0 |-> 150, dtop |-> 0, fontname |-> FontRegular, size |-> 1250] >>

HdrNumeric ==
    << [text |-> <<"1">>, x0 |-> 40, dtop |-> 0, fontname |-> FontBold, size |-> 1020],
       [text |-> <<"C","H","O","R","U","S">>, x0 |-> 60, dtop |-> 0, fontname |-> FontBold, size |-> 1480] >>

RowChords ==
    << [text |-> <<"G">>, x0 |-> 40, dtop |-> 0, fontname |-> FontBold, size |-> 1360],
       [text |-> <<"D">>, x0 |-> 100, dtop |-> 0, fontname |-> FontBold, size |-> 1360] >>

RowLyrics ==
    << [text |-> <<"i","n","g">>, x0 |-> 100, dtop |-> 0, fontname |-> FontRegular, size |-> 1360],
       [text |-> <<"A","m","a","z">>, x0 |-> 40, dtop |-> 0, fontname |-> FontRegular, size |-> 1360] >>

RowMixed ==
    << [text |-> <<"g","r","a","c","e">>, x0 |-> 40, dtop |-> 3, fontname |-> FontRegular, size |-> 1360],
       [text |-> <<"G">>, x0 |-> 40, dtop |-> 0, fontname |-> FontBold, size |-> 1360] >>

RowDyn ==
    << [text |-> <<"S","o","f","t","l","y">>, x0 |-> 40, dtop |-> 0, fontname |-> FontRegular, size |-> 1250] >>

RowMeta ==
    << [text |-> <<"x">>, x0 |-> 40, dtop |-> 0, fontname |-> FontRegular, size |-> 800] >>

RowSlash ==
    << [text |-> <<"G">>, x0 |-> 40, dtop |-> 0, fontname |-> FontBold, size |-> 1360],
       [text |-> <<"m">>, x0 |-> 50, dtop |-> 0, fontname |-> FontBold, size |-> 1360],
       [text |-> <<"7">>, x0 |-> 56, dtop |-> 0, fontname |-> FontBold, size |-> 1020],
       [text |-> <<"/","B">>, x0 |-> 62, dtop |-> 0, fontname |-> FontBold, size |-> 1360] >>

HeaderKinds == {HdrChorus, HdrVerse2, HdrRule, HdrDyn, HdrNumeric}
BodyKinds ==
    {RowChords, RowLyrics, RowMixed, RowDyn, RowMeta, RowSlash,
     HdrChorus, HdrRule, HdrDyn}

PlaceRow(kind, top) ==
    [i \in 1..Len(kind) |->
        Token(kind[i].text, kind[i].x0, top + kind[i].dtop,
              kind[i].fontname, kind[i].size)]

\* row k of a column lies 20 below row k - 1, the first at top
RECURSIVE PlaceRows(_, _)
PlaceRows(kinds, top) ==
    IF Len(kinds) = 0 THEN <<>>
    ELSE PlaceRow(kinds[1], top) \o PlaceRows(Tail(kinds), top + 20)

MaxRows == 3

(* Rows for the attachment rule: chord G at x0 = 10, an optional chord D   *)
(* at cB (10: the same x0 on a baseline 3 lower), modifiers sus4 at m1 and *)
(* 7 at m2, bass notes /B at b1 and /C at b2; 0 leaves the token out.      *)
AttachRow(cB, m1, m2, b1, b2) ==
    << [text |-> <<"G">>, x0 |-> 10, dtop |-> 0, fontname |-> FontBold, size |-> 1360] >>
    \o (IF cB = 0 THEN <<>> ELSE
        << [text |-> <<"D">>, x0 |-> cB, dtop |-> 3, fontname |-> FontBold, size |-> 1360] >>)
    \o (IF m1 = 0 THEN <<>> ELSE
        << [text |-> <<"s","u","s","4">>, x0 |-> m1, dtop |-> 0, fontname |-> FontBold, size |-> 1020] >>)
    \o (IF m2 = 0 THEN <<>> ELSE
        << [text |-> <<"7">>, x0 |-> m2, dtop |-> 0, fontname |-> FontBold, size |-> 1020] >>)
    \o (IF b1 = 0 THEN <<>> ELSE
        << [text |-> <<"/","B">>, x0 |-> b1, dtop |-> 0, fontname |-> FontBold, size |-> 1360] >>)
    \o (IF b2 = 0 THEN <<>> ELSE
        << [text |-> <<"/","C">>, x0 |-> b2, dtop |-> 0, fontname |-> FontBold, size |-> 1360] >>)

AttachRows ==
    {AttachRow(cB, m1, m2, b1, b2) :
        cB \in {0, 10, 20}, m1 \in {0, 15, 34, 35}, m2 \in {0, 22, 44, 45},
        b1 \in {0, 59, 60}, b2 \in {0, 30}}

NoPage == NoValue
PageNoCurves == Some([curves |-> {}])
PageCurves ==
    Some([curves |-> {[x0 |-> 12, top |-> 222], [x0 |-> 45, top |-> 222]}])

ColumnInputs ==
    {[ws |-> PlaceRows(<<h>> \o body, 200), page |-> pg] :
        h \in HeaderKinds, body \in SeqsUpTo(BodyKinds, MaxRows),
        pg \in {PageNoCurves, PageCurves}}
    \cup {[ws |-> PlaceRows(<<HdrChorus, r>>, 200), page |-> pg] :
        r \in AttachRows, pg \in {NoPage, PageNoCurves, PageCurves}}
    \cup {[ws |-> <<>>, page |-> NoPage]}

ColumnInit ==
    /\ pc = "column"
    /\ \E in \in ColumnInputs : col_words = in.ws /\ col_page = in.page
    /\ col_lines = <<>> /\ row_i = 0
    /\ col_closed = <<>> /\ col_current = NoValue
    /\ row_chords = <<>> /\ col_sections = <<>>
    /\ ClassifyIdle /\ NameIdle /\ LineIdle /\ ConvertIdle /\ MergeIdle

\* lines 155-156: no words, no sections
ReturnEmpty ==
    /\ pc = "column"
    /\ Len(col_words) = 0
    /\ col_sections' = <<>>
    /\ pc' = "returned"
    /\ UNCHANGED <<col_words, col_page, col_lines, row_i, col_closed,
                   col_current, row_chords>>
    /\ UNCHANGED <<classifyVars, nameVars, lineVars, convertVars,
                 mergeVars>>

\* lines 161-177
GroupRows ==
    /\ pc = "column"
    /\ Len(col_words) > 0
    /\ col_lines' = group_lines(col_words)
    /\ row_i' = 1
    /\ pc' = "rows"
    /\ UNCHANGED <<col_words, col_page, col_closed, col_current, row_chords,
                   col_sections>>
    /\ UNCHANGED <<classifyVars, nameVars, lineVars, convertVars,
                 mergeVars>>

\* whether the loop body reaches the chord assembly of lines 210-281 for row
RowIsAssembled(row, current) ==
    Len(row) > 0 /\ ~is_header_row(row) /\ IsSome(current)

\* lines 179-300: one row
ProcessRow ==
    /\ pc = "rows"
    /\ row_i <= Len(col_lines)
    /\ LET st == process_row([sections |-> col_closed,
                              current_section |-> col_current],
                             col_lines[row_i], col_page)
       IN  /\ col_closed' = st.sections
           /\ col_current' = st.current_section
    /\ row_chords' = IF RowIsAssembled(col_lines[row_i], col_current)
                     THEN assemble_chords(col_lines[row_i], col_page)
                     ELSE row_chords
    /\ row_i' = row_i + 1
    /\ UNCHANGED <<pc, col_words, col_page, col_lines, col_sections>>
    /\ UNCHANGED <<classifyVars, nameVars, lineVars, convertVars,
                 mergeVars>>

\* lines 302-303
FinishRows ==
    /\ pc = "rows"
    /\ row_i > Len(col_lines)
    /\ col_closed' = close_section(col_closed, col_current)
    /\ pc' = "merge"
    /\ UNCHANGED <<col_words, col_page, col_lines, row_i, col_current,
                   row_chords, col_sections>>
    /\ UNCHANGED <<classifyVars, nameVars, lineVars, convertVars,
                 mergeVars>>

\* lines 305-339
MergeSections ==
    /\ pc = "merge"
    /\ col_sections' = merge_sections(col_closed)
    /\ pc' = "returned"
    /\ UNCHANGED <<col_words, col_page, col_lines, row_i, col_closed,
                   col_current, row_chords>>
    /\ UNCHANGED <<classifyVars, nameVars, lineVars, convertVars,
                 mergeVars>>

ColumnNext ==
    ReturnEmpty \/ GroupRows \/ ProcessRow \/ FinishRows \/ MergeSections

SpecColumn == ColumnInit /\ [][ColumnNext]_vars

\* The row-by-row run returns what parse_column returns.
ColumnRunIsParseColumn ==
    pc = "returned" => col_sections = parse_column(col_words, col_page)


\* C6 (as claimed): every section parse_column returns has a non-empty name
\* and at least one line.
C6_NamedAndNonEmpty ==
    pc = "returned" =>
        \A k \in 1..Len(col_sections) :
            /\ Len(col_sections[k].name) > 0
            /\ Len(col_sections[k].lines) > 0

\* The half of C6 the code keeps: no returned section is without lines.
SectionsHaveLines ==
    pc = "returned" =>
        \A k \in 1..Len(col_sections) : Len(col_sections[k].lines) > 0

(* The attachment rule stated from the positions alone: the chords at the  *)
(* largest x0 strictly left of x and less than limit away.                 *)
NearestLeft(raw, x, limit) ==
    {j \in 1..Len(raw) :
        /\ 0 < x - raw[j].x0 /\ x - raw[j].x0 < limit
        /\ \A k \in 1..Len(raw) :
              (0 < x - raw[k].x0) => raw[k].x0 <= raw[j].x0}

\* the one chord a token at x attaches to, 0 when no chord qualifies
TheTarget(raw, x, limit) ==
    IF NearestLeft(raw, x, limit) = {} THEN 0
    ELSE CHOOSE j \in NearestLeft(raw, x, limit) : TRUE

TextsAttachedTo(raw, tokens, limit, j) ==
    TextsOf(SelectSeqBy(tokens,
        [i \in 1..Len(tokens) |-> TheTarget(raw, tokens[i].x0, limit) = j]))

TextsAttachedAtX(raw, tokens, limit, j) ==
    TextsOf(SelectSeqBy(tokens,
        [i \in 1..Len(tokens) |-> j \in NearestLeft(raw, tokens[i].x0, limit)]))

AttachedAsClaimed(row, built) ==
    LET raw  == OfClass(row, "chord")
        mods == OfClass(row, "chord_modifier")
        bass == OfClass(row, "bass_note")
    IN  /\ Len(built) = Len(raw)
        /\ \A j \in 1..Len(raw) :
              LET bs == TextsAttachedTo(raw, bass, 50, j)
              IN  \E b \in (IF Len(bs) = 0 THEN {<<>>}
                            ELSE {bs[i] : i \in 1..Len(bs)}) :
                     built[j].text =
                         raw[j].text
                         \o Join(TextsAttachedTo(raw, mods, 25, j), <<>>)
                         \o b

DistinctChordX(row) ==
    LET raw == OfClass(row, "chord")
    IN  \A j, k \in 1..Len(raw) : j # k => raw[j].x0 # raw[k].x0

RowJustHandled == col_lines[row_i - 1]

AssembledRowState ==
    /\ pc = "rows" /\ row_i >= 2
    /\ RowIsAssembled(RowJustHandled, col_current)
    /\ Curves(col_page) = {}

\* C10 (as claimed): in every row each modifier is attached to exactly one
\* chord, the one with the largest x0 strictly left of it and less than 25px
\* away, and to no other chord; each bass note likewise with a 50px limit;
\* the modifiers of a chord are concatenated in left-to-right order and a
\* chord carries at most one bass note.
C10_AttachedToExactlyOneChord ==
    AssembledRowState => AttachedAsClaimed(RowJustHandled, row_chords)

\* C10 holds of the rows whose chords have pairwise distinct x0.
AttachedToOneChordWhenXDistinct ==
    (AssembledRowState /\ DistinctChordX(RowJustHandled))
        => AttachedAsClaimed(RowJustHandled, row_chords)

\* What the code does: a modifier or bass note is attached to every chord
\* whose x0 is the largest x0 strictly left of it within the limit, and a
\* chord carries the last bass note attached to it.
AttachedToEveryChordAtX ==
    AssembledRowState =>
        LET raw  == OfClass(RowJustHandled, "chord")
            mods == OfClass(RowJustHandled, "chord_modifier")
            bass == OfClass(RowJustHandled, "bass_note")
        IN  /\ Len(row_chords) = Len(raw)
            /\ \A j \in 1..Len(raw) :
                  LET bs == TextsAttachedAtX(raw, bass, 50, j)
                  IN  row_chords[j].text =
                          raw[j].text
                          \o Join(TextsAttachedAtX(raw, mods, 25, j), <<>>)
                          \o (IF Len(bs) = 0 THEN <<>> ELSE bs[Len(bs)])


---------------------------------------------------------------------------
(* extract_metadata                                                        *)

\* text.split('\n'): the pieces of s from index i on
RECURSIVE SplitFrom(_, _)
SplitFrom(s, i) ==
    LET breaks == {j \in i..Len(s) : s[j] = "\n"}
    IN  IF breaks = {} THEN <<SubSeq(s, i, Len(s))>>
        ELSE LET j == CHOOSE j \in breaks : \A k \in breaks : j <= k
             IN  <<SubSeq(s, i, j - 1)>> \o SplitFrom(s, j + 1)

SplitLines(s) == SplitFrom(s, 1)

\* str.count(c)
Count(s, c) == Cardinality({i \in 1..Len(s) : s[i] = c})

\* s.replace(a, b) for single characters
ReplaceChar(s, a, b) == [i \in 1..Len(s) |-> IF s[i] = a THEN b ELSE s[i]]

LitKey    == <<"K","e","y",":">>
LitPage   == <<"P","a","g","e",":">>
LitTempo  == <<"T","e","m","p","o",":">>
LitTime   == <<"T","i","m","e",":">>

\* lit occurs in s at index i
OccursAt(s, i, lit) ==
    /\ i + Len(lit) - 1 <= Len(s)
    /\ SubSeq(s, i, i + Len(lit) - 1) = lit

\* first index >= i of s that holds no white space (Len(s) + 1 at the end)
RECURSIVE SkipSpaces(_, _)
SkipSpaces(s, i) ==
    IF i <= Len(s) /\ IsSpace(s[i]) THEN SkipSpaces(s, i + 1) ELSE i

\* last index of the run of digits of s that starts at i (i - 1: no digit)
RECURSIVE DigitsEnd(_, _)
DigitsEnd(s, i) ==
    IF i <= Len(s) /\ s[i] \in Digits THEN DigitsEnd(s, i + 1) ELSE i - 1

\* re.match(r'^(.+?)\s*Key:', line): the lengths k >= 1 of a group 1 after
\* which only white space precedes 'Key:'
ArtistGroupLens(line) ==
    {k \in 1..Len(line) :
        \E pp \in k..Len(line) :
            /\ \A qq \in (k + 1)..pp : IsSpace(line[qq])
            /\ OccursAt(line, pp + 1, LitKey)}

ArtistMatches(line) == ArtistGroupLens(line) # {}

\* group(1) of the lazy match: the shortest
ArtistGroup(line) ==
    SubSeq(line, 1, CHOOSE k \in ArtistGroupLens(line) :
                        \A j \in ArtistGroupLens(line) : k <= j)

\* lines 101-125: <<title_parts, artist>> after the lines from index i on
\* (i counts from 0 as enumerate does)
RECURSIVE ScanHeader(_, _, _, _)
ScanHeader(lines, i, title_parts, artist) ==
    IF i >= Len(lines) THEN <<title_parts, artist>>
    ELSE LET line == lines[i + 1]
             line_stripped == Strip(line)
         IN  IF Contains(line, LitPage) \/ Contains(line, LitKey)
             THEN IF /\ Contains(line, LitKey)
                     /\ ArtistMatches(line)
                     /\ LET artist_text == Strip(ArtistGroup(line))
                        IN  /\ Len(artist_text) > 0
                            /\ ~EndsWith(artist_text, <<")">>)
                            /\ ~EndsWith(artist_text, <<"]">>)
                  THEN <<title_parts, Strip(ArtistGroup(line))>>
                  ELSE <<title_parts, artist>>
             ELSE IF i = 0
             THEN ScanHeader(lines, i + 1, Append(title_parts, line_stripped),
                             artist)
             ELSE IF i = 1
             THEN IF \/ StartsWith(line_stripped, <<")">>)
                     \/ StartsWith(line_stripped, <<"]">>)
                     \/ /\ Len(title_parts) > 0
                        /\ \/ Count(title_parts[1], "(") > Count(title_parts[1], ")")
                           \/ Count(title_parts[1], "[") > Count(title_parts[1], "]")
                  THEN ScanHeader(lines, i + 1,
                                  Append(title_parts, line_stripped), artist)
                  ELSE <<title_parts, line_stripped>>
             ELSE ScanHeader(lines, i + 1, title_parts, artist)

\* re.search(r'Key:\s*([A-G][#b<sharp><flat>]?m?)', text): start positions
KeyStarts(text) ==
    {i \in 1..Len(text) :
        /\ OccursAt(text, i, LitKey)
        /\ LET j == SkipSpaces(text, i + 4)
           IN  j <= Len(text) /\ text[j] \in {"A","B","C","D","E","F","G"}}

KeyGroup(text) ==
    LET i == CHOOSE a \in KeyStarts(text) : \A b \in KeyStarts(text) : a <= b
        j == SkipSpaces(text, i + 4)
        acc == IF j + 1 <= Len(text) /\ text[j + 1] \in {"#", "b", "U266F", "U266D"}
               THEN 1 ELSE 0
        mm == IF j + acc + 1 <= Len(text) /\ text[j + acc + 1] = "m"
              THEN 1 ELSE 0
    IN  SubSeq(text, j, j + acc + mm)

\* re.search(r'Tempo:\s*(\d+)', text)
TempoStarts(text) ==
    {i \in 1..Len(text) :
        /\ OccursAt(text, i, LitTempo)
        /\ LET j == SkipSpaces(text, i + 6)
           IN  DigitsEnd(text, j) >= j}

TempoGroup(text) ==
    LET i == CHOOSE a \in TempoStarts(text) : \A b \in TempoStarts(text) : a <= b
        j == SkipSpaces(text, i + 6)
    IN  SubSeq(text, j, DigitsEnd(text, j))

\* re.search(r'Time:\s*(\d+/\d+)', text)
TimeStarts(text) ==
    {i \in 1..Len(text) :
        /\ OccursAt(text, i, LitTime)
        /\ LET j == SkipSpaces(text, i + 5)
               e == DigitsEnd(text, j)
           IN  /\ e >= j
               /\ e + 1 <= Len(text) /\ text[e + 1] = "/"
               /\ DigitsEnd(text, e + 2) >= e + 2}

TimeGroup(text) ==
    LET i == CHOOSE a \in TimeStarts(text) : \A b \in TimeStarts(text) : a <= b
        j == SkipSpaces(text, i + 5)
        e == DigitsEnd(text, j)
    IN  SubSeq(text, j, DigitsEnd(text, e + 2))

DefaultTime == <<"4", "/", "4">>

extract_metadata(the_pdf) ==
    LET text  == the_pdf.pages[1].text
        lines == SplitLines(text)
        scan  == ScanHeader(lines, 0, <<>>, <<>>)
    IN  [title  |-> Join(scan[1], <<" ">>),
         artist |-> scan[2],
         key    |-> IF KeyStarts(text) # {}
                    THEN ReplaceChar(ReplaceChar(KeyGroup(text), "U266F", "#"),
                                     "U266D", "b")
                    ELSE <<>>,
         tempo  |-> IF TempoStarts(text) # {} THEN TempoGroup(text) ELSE <<>>,
         time   |-> IF TimeStarts(text) # {} THEN TimeGroup(text)
                    ELSE DefaultTime]


---------------------------------------------------------------------------
(* parse_page                                                              *)

\* line 378: substrings of page and footer elements
SkipWords ==
    {<<"P","a","g","e",":">>, <<"M","u","l","t","i","T","r","a","c","k","s">>, <<"m","t","I","D">>, <<"W","r","i","t","e","r","s",":">>, <<"C","h","a","r","t","s">>}

LitProductOf == <<"a"," ","p","r","o","d","u","c","t"," ","o","f">>

\* lines 355-364: roadmap_bottom after the words from index i on; the scan
\* stops at the first word below 150
RECURSIVE RoadmapBottom(_, _, _)
RoadmapBottom(ws, i, roadmap_bottom) ==
    IF i > Len(ws) THEN roadmap_bottom
    ELSE LET w == ws[i]
         IN  IF w.top > 150 THEN roadmap_bottom
             ELSE IF /\ Contains(w.fontname, BoldMark)
                     /\ 900 <= w.size /\ w.size <= 1150
                     /\ w.top > 50
                     /\ w.bottom + 10 > roadmap_bottom
                  THEN RoadmapBottom(ws, i + 1, w.bottom + 10)
                  ELSE RoadmapBottom(ws, i + 1, roadmap_bottom)

\* lines 353-367
MinY(ws, pnum) ==
    IF pnum = 0
    THEN LET rb == RoadmapBottom(ws, 1, 70) IN IF rb > 70 THEN rb ELSE 70
    ELSE 45

\* lines 372-387: the word is kept
KeepWord(w, min_y, title) ==
    LET text == Strip(w.text)
    IN  /\ ~(w.top < min_y)
        /\ Len(text) > 0
        /\ \A skip \in SkipWords : ~Contains(text, skip)
        /\ ~StartsWith(text, <<"U00A9">>)
        /\ ~StartsWith(text, <<"U2117">>)
        /\ ~Contains(StrLower(text), LitProductOf)
        /\ ~(text = title /\ w.top < 60)

\* the column boundary of lines 393-394: mid_x - 30 (page widths are even)
ColumnBoundary(page) == (page.width \div 2) - 30

\* lines 404 with the columns the other way round
join_columns_right_first(left_sections, right_sections) ==
    right_sections \o left_sections

\* line 404
join_columns(left_sections, right_sections) ==
    left_sections \o right_sections

parse_page(page, pnum, title) ==
    IF Len(page.words) = 0 THEN <<>>
    ELSE LET ws == page.words
             min_y == MinY(ws, pnum)
             filtered == SelectSeqBy(ws,
                 [i \in 1..Len(ws) |-> KeepWord(ws[i], min_y, title)])
             left_words == SelectSeqBy(filtered,
                 [i \in 1..Len(filtered) |->
                     filtered[i].x0 < ColumnBoundary(page)])
             right_words == SelectSeqBy(filtered,
                 [i \in 1..Len(filtered) |->
                     filtered[i].x0 >= ColumnBoundary(page)])
         IN  IF Len(filtered) = 0 THEN <<>>
             ELSE join_columns(parse_column(left_words, Some(page)),
                               parse_column(right_words, Some(page)))

---------------------------------------------------------------------------
(* convert_pdf, main                                                       *)

Tag(tag, value) == <<"{">> \o tag \o <<":", " ">> \o value \o <<"}">>

TagTitle    == <<"t","i","t","l","e">>
TagArtist   == <<"a","r","t","i","s","t">>
TagKey      == <<"k","e","y">>
TagTempo    == <<"t","e","m","p","o">>
TagTime     == <<"t","i","m","e">>
TagSection  == <<"s","e","c","t","i","o","n">>
TagDynamics == <<"d","y","n","a","m","i","c","s">>

\* lines 482-491 with the key tag written before the artist tag
header_lines_key_first(md) ==
    <<Tag(TagTitle, md.title)>>
    \o (IF Len(md.key) > 0 THEN <<Tag(TagKey, md.key)>> ELSE <<>>)
    \o (IF Len(md.artist) > 0 THEN <<Tag(TagArtist, md.artist)>> ELSE <<>>)
    \o (IF Len(md.tempo) > 0 THEN <<Tag(TagTempo, md.tempo)>> ELSE <<>>)
    \o (IF Len(md.time) > 0 THEN <<Tag(TagTime, md.time)>> ELSE <<>>)
    \o << <<>> >>

\* lines 482-491; metadata always has the key 'title', so the default
\* 'Untitled' of line 482 is never taken
header_lines(md) ==
    <<Tag(TagTitle, md.title)>>
    \o (IF Len(md.artist) > 0 THEN <<Tag(TagArtist, md.artist)>> ELSE <<>>)
    \o (IF Len(md.key) > 0 THEN <<Tag(TagKey, md.key)>> ELSE <<>>)
    \o (IF Len(md.tempo) > 0 THEN <<Tag(TagTempo, md.tempo)>> ELSE <<>>)
    \o (IF Len(md.time) > 0 THEN <<Tag(TagTime, md.time)>> ELSE <<>>)
    \o << <<>> >>

\* lines 497-503: the output lines of the lines of a section from index i on
RECURSIVE ContentLines(_, _)
ContentLines(lines, i) ==
    IF i > Len(lines) THEN <<>>
    ELSE IF lines[i].type = "dynamics"
         THEN <<Tag(TagDynamics, lines[i].text)>> \o ContentLines(lines, i + 1)
         ELSE LET out == build_line(lines[i])
              IN  (IF Len(out) > 0 THEN <<out>> ELSE <<>>)
                  \o ContentLines(lines, i + 1)

\* lines 493-504
RECURSIVE SectionLines(_, _)
SectionLines(secs, k) ==
    IF k > Len(secs) THEN <<>>
    ELSE <<Tag(TagSection, secs[k].name)>>
         \o (IF Truthy(secs[k].dynamics)
             THEN <<Tag(TagDynamics, secs[k].dynamics[1])>> ELSE <<>>)
         \o ContentLines(secs[k].lines, 1)
         \o << <<>> >>
         \o SectionLines(secs, k + 1)

\* lines 481-506
build_output(md, secs) ==
    Join(header_lines(md) \o SectionLines(secs, 1), <<"\n">>)


---------------------------------------------------------------------------
(* build_index.extract_metadata: the reader of the three tags              *)

IndexTags == <<TagTitle, TagArtist, TagKey>>

\* re.match(r'\{(title|artist|key)\s*:\s*(.+?)\}', line, re.IGNORECASE):
\* <<tag, group(2).strip()>> in a one-element sequence, <<>> without match
IndexMatch(line) ==
    LET tags == {t \in 1..3 :
                    /\ Len(line) >= 1 /\ line[1] = "{"
                    /\ OccursAt(StrLower(line), 2, IndexTags[t])
                    /\ LET j == SkipSpaces(line, 2 + Len(IndexTags[t]))
                       IN  j <= Len(line) /\ line[j] = ":"}
    IN  IF tags = {} THEN <<>>
        ELSE LET t  == CHOOSE t \in tags : TRUE
                 j  == SkipSpaces(line, 2 + Len(IndexTags[t]))
                 v0 == SkipSpaces(line, j + 1)
                 ends == {e \in v0..(Len(line) - 1) : line[e + 1] = "}"}
             IN  IF ends # {}
                 THEN << <<IndexTags[t],
                           Strip(SubSeq(line, v0,
                               CHOOSE e \in ends : \A f \in ends : e <= f))>> >>
                 ELSE IF v0 - 1 >= j + 1 /\ v0 <= Len(line) /\ line[v0] = "}"
                 THEN << <<IndexTags[t], <<>>>> >>
                 ELSE <<>>

\* lines 19-23 of build_index.py over the lines from index i on
RECURSIVE IndexLoop(_, _, _)
IndexLoop(lines, i, found) ==
    IF i > Len(lines) \/ i > 10 THEN found
    ELSE LET m == IndexMatch(lines[i])
         IN  IndexLoop(lines, i + 1,
                 IF m = <<>> THEN found
                 ELSE LET tag == m[1][1]
                      IN  [found EXCEPT
                              !.title  = IF tag = TagTitle THEN Some(m[1][2]) ELSE @,
                              !.artist = IF tag = TagArtist THEN Some(m[1][2]) ELSE @,
                              !.key    = IF tag = TagKey THEN Some(m[1][2]) ELSE @])

index_extract_metadata(content) ==
    IndexLoop(SplitLines(content), 1,
              [title |-> NoValue, artist |-> NoValue, key |-> NoValue])

\* build_index, lines 44-51: the entry of a file with this content and stem
index_song(content, stem) ==
    LET found == index_extract_metadata(content)
    IN  [title  |-> IF IsSome(found.title) THEN found.title[1] ELSE stem,
         artist |-> IF IsSome(found.artist) THEN found.artist[1] ELSE <<>>,
         key    |-> IF IsSome(found.key) THEN found.key[1] ELSE <<>>]

---------------------------------------------------------------------------
(* One conversion: main on a single file                                   *)

TextAmazingGrace ==
    <<"A","m","a","z","i","n","g"," ","G","r","a","c","e","\n","J","o","h","n"," ","N","e","w","t","o","n"," ","K","e","y",":"," ","G"," ","T","e","m","p","o",":"," ","9","0"," ","T","i","m","e",":"," ","3","/","4","\n","V","e","r","s","e">>
TextKeyFirst ==
    <<"K","e","y",":"," ","G">>
TextEmpty ==
    <<>>
TextContinued ==
    <<"S","o","n","g"," ","(","L","i","v","e","\n","V","e","r","s","i","o","n",")"," ","K","e","y",":"," ","B","U266D","m"," ","T","e","m","p","o",":"," ","7","2">>
TextBracket ==
    <<"S","o","n","g"," ","[","L","i","v","e","\n","]"," ","A","c","o","u","s","t","i","c","\n","B","a","n","d"," ","K","e","y",":"," ","F","U266F","m">>
TextPageFirst ==
    <<"P","a","g","e",":"," ","1","\n","S","o","n","g">>
TextNoKey ==
    <<"S","o","n","g","\n","A","r","t","i","s","t">>
TextBrace ==
    <<"S","o","n","g"," ","{","L","i","v","e","}","\n","A","r","t","i","s","t"," ","K","e","y",":"," ","C">>
TextBlankFirst ==
    <<" "," ","\n","A","r","t","i","s","t"," ","K","e","y",":"," ","C">>

MetaTexts ==
    {TextAmazingGrace, TextKeyFirst, TextEmpty, TextContinued, TextBracket,
     TextPageFirst, TextNoKey, TextBlankFirst, TextBrace}

FileName == <<"s","o","n","g",".","p","d","f">>
FileStem == <<"s","o","n","g">>

\* decimal digits of n, 0 <= n <= 99
IntStr(n) ==
    LET d == <<"0","1","2","3","4","5","6","7","8","9">>
    IN  IF n < 10 THEN <<d[n + 1]>> ELSE <<d[(n \div 10) + 1], d[(n % 10) + 1]>>

\* header row of section "VERSE n"
HdrVerse(n) ==
    << [text |-> <<"V">>, x0 |-> 40, dtop |-> 0, fontname |-> FontBold, size |-> 1020],
       [text |-> <<"V","E","R","S","E">>, x0 |-> 60, dtop |-> 0, fontname |-> FontBold, size |-> 1480],
       [text |-> IntStr(n), x0 |-> 110, dtop |-> 0, fontname |-> FontBold, size |-> 1480] >>

\* the rows of a column whose first section is VERSE n
ColumnShape(shape, n) ==
    CASE shape = 0 -> <<>>
      [] shape = 1 -> <<HdrVerse(n), RowLyrics>>
      [] shape = 2 -> <<HdrVerse(n), RowChords, RowLyrics, HdrVerse(n + 1), RowMixed>>
      [] shape = 3 -> <<HdrVerse(n), HdrVerse(n + 1), RowLyrics>>
      [] shape = 4 -> <<RowLyrics, HdrVerse(n), RowDyn, RowChords>>

ShiftX(ws, dx) == [i \in 1..Len(ws) |-> [ws[i] EXCEPT !.x0 = @ + dx]]

\* a roadmap badge in the header strip of page 1, a vendor footer, and the
\* title repeated in the running header
RoadmapToken == Token(<<"V","1">>, 40, 60, FontBold, 1020)
FooterToken  == Token(<<"M","u","l","t","i","T","r","a","c","k","s">>, 40, 760, FontRegular, 800)
RunningTitle == Token(<<"S","o","n","g">>, 40, 50, FontRegular, 1360)

\* page p of a document: the left column starts at x0 = 40, the right one at
\* x0 = 340, on a page 612 wide; section numbers grow left to right, page by
\* page
MakePage(p, left, right, top, roadmap, text, curves) ==
    [words |-> (IF roadmap THEN <<RoadmapToken>> ELSE <<>>)
               \o (IF p > 1 THEN <<RunningTitle>> ELSE <<>>)
               \o PlaceRows(ColumnShape(left, 4 * (p - 1) + 1), top)
               \o ShiftX(PlaceRows(ColumnShape(right, 4 * (p - 1) + 3), top), 300)
               \o (IF left + right > 0 THEN <<FooterToken>> ELSE <<>>),
     width |-> 612,
     curves |-> curves,
     text |-> text]

MaxPages == 2

OneCurve == {[x0 |-> 45, top |-> 222]}

\* documents for the metadata: every text over a page with at most one section
MetaDocs ==
    {[pages |-> <<MakePage(1, left, 0, 200, FALSE, t, {})>>] :
        t \in MetaTexts, left \in {0, 1}}

\* one-page documents: every pair of column shapes, content starting inside
\* or below the strip the roadmap scan looks at
OnePageDocs ==
    {[pages |-> <<MakePage(1, left, right, top, roadmap, TextNoKey, {})>>] :
        left \in 0..4, right \in 0..4, top \in {100, 200},
        roadmap \in BOOLEAN}

\* documents of 2..MaxPages pages
ManyPageDocs ==
    UNION {
        {[pages |-> [p \in 1..n |->
                        MakePage(p, shapes[p][1], shapes[p][2], 200, FALSE,
                                 IF p = 1 THEN TextNoKey ELSE <<>>,
                                 IF p = 1 THEN {} ELSE OneCurve)]] :
            shapes \in [1..n -> (0..2) \X (0..2)]} :
        n \in 2..MaxPages}

\* the end-to-end input: a badge and CHORUS, a chord row G, a lyric row grace
EndToEndWords(badge, top) ==
    PlaceRows(<< << [text |-> badge, x0 |-> 40, dtop |-> 0,
                     fontname |-> FontBold, size |-> 1000],
                    [text |-> NameCHORUS, x0 |-> 60, dtop |-> 0,
                     fontname |-> FontBold, size |-> 1480] >>,
                 << [text |-> TextG, x0 |-> 40, dtop |-> 0,
                     fontname |-> FontBold, size |-> 1360] >>,
                 << [text |-> <<"g","r","a","c","e">>, x0 |-> 40, dtop |-> 0,
                     fontname |-> FontRegular, size |-> 1360] >> >>, top)

EndToEndDoc(badge, top) ==
    [pages |-> << [words |-> EndToEndWords(badge, top), width |-> 612,
                   curves |-> {}, text |-> TextAmazingGrace] >>]

EndToEndDocs ==
    {EndToEndDoc(badge, top) : badge \in {<<"1">>, <<"C">>}, top \in {100, 200}}

Docs == MetaDocs \cup OnePageDocs \cup ManyPageDocs \cup EndToEndDocs

Init ==
    /\ pc = "open"
    /\ pdf \in Docs
    /\ pdf_path = FileName
    /\ metadata = <<>> /\ page_num = 0 /\ all_sections = <<>>
    /\ result = <<>> /\ output = <<>> /\ song = <<>>
    /\ ClassifyIdle /\ NameIdle /\ LineIdle /\ ColumnIdle /\ MergeIdle

\* lines 470-474
ExtractMetadata ==
    /\ pc = "open"
    /\ metadata' = extract_metadata(pdf)
    /\ page_num' = 0
    /\ all_sections' = <<>>
    /\ pc' = "pages"
    /\ UNCHANGED <<pdf, pdf_path, result, output, song>>
    /\ UNCHANGED <<classifyVars, nameVars, lineVars, columnVars, mergeVars>>

\* lines 475-479: one page
ParsePage ==
    /\ pc = "pages"
    /\ page_num < Len(pdf.pages)
    /\ all_sections' = all_sections
                       \o parse_page(pdf.pages[page_num + 1], page_num,
                                     metadata.title)
    /\ page_num' = page_num + 1
    /\ UNCHANGED <<pc, pdf, pdf_path, metadata, result, output, song>>
    /\ UNCHANGED <<classifyVars, nameVars, lineVars, columnVars, mergeVars>>

\* lines 481-506
BuildOutput ==
    /\ pc = "pages"
    /\ page_num = Len(pdf.pages)
    /\ result' = build_output(metadata, all_sections)
    /\ pc' = "converted"
    /\ UNCHANGED <<pdf, pdf_path, metadata, page_num, all_sections, output, song>>
    /\ UNCHANGED <<classifyVars, nameVars, lineVars, columnVars, mergeVars>>

\* main, lines 526-530: the result is written when it is not empty
WriteResult ==
    /\ pc = "converted"
    /\ output' = IF Len(result) > 0 THEN result ELSE output
    /\ pc' = "done"
    /\ UNCHANGED <<pdf, pdf_path, metadata, page_num, all_sections, result, song>>
    /\ UNCHANGED <<classifyVars, nameVars, lineVars, columnVars, mergeVars>>

\* build_index, lines 44-51: the entry of the written file in the index
BuildIndex ==
    /\ pc = "done"
    /\ song' = index_song(output, FileStem)
    /\ pc' = "indexed"
    /\ UNCHANGED <<pdf, pdf_path, metadata, page_num, all_sections, result,
                   output>>
    /\ UNCHANGED <<classifyVars, nameVars, lineVars, columnVars, mergeVars>>

Next ==
    ExtractMetadata \/ ParsePage \/ BuildOutput \/ WriteResult \/ BuildIndex

Spec == Init /\ [][Next]_vars


---------------------------------------------------------------------------
(* Properties of one conversion                                            *)

Written == pc \in {"done", "indexed"}

OutputLines == SplitLines(output)

LineSectionChorus == <<"{","s","e","c","t","i","o","n",":"," ","C","h","o","r","u","s","}">>
LineChordedGrace  == <<"[","G","]","g","r","a","c","e">>

\* C1: converting the one-page, one-column input (badge + CHORUS header row,
\* chord row G, lyric row grace at the same x) writes the line
\* {section: Chorus} immediately followed by the line [G]grace.
C1_ChorusThenChordedLyric ==
    (Written /\ pdf \in EndToEndDocs) =>
        \E i \in 1..(Len(OutputLines) - 1) :
            /\ OutputLines[i] = LineSectionChorus
            /\ OutputLines[i + 1] = LineChordedGrace

\* C3: no written output starts with a title tag of empty value; when the
\* first page yields an empty title, the title tag carries the name of the
\* source file.
C3_TitleFromFileName ==
    Written =>
        /\ OutputLines[1] # Tag(TagTitle, <<>>)
        /\ Len(metadata.title) = 0 =>
               OutputLines[1] \in {Tag(TagTitle, FileName), Tag(TagTitle, FileStem)}

\* the tag line of a field, present when the field is not empty
TagWhenPresent(tag, value) ==
    IF Len(value) > 0 THEN <<Tag(tag, value)>> ELSE <<>>

\* the header block the metadata record calls for
HeaderBlock ==
    <<Tag(TagTitle, metadata.title)>>
    \o TagWhenPresent(TagArtist, metadata.artist)
    \o TagWhenPresent(TagKey, metadata.key)
    \o TagWhenPresent(TagTempo, metadata.tempo)
    \o <<Tag(TagTime, metadata.time)>>

IsSectionTag(line) == StartsWith(line, <<"{","s","e","c","t","i","o","n",":"," ">>)

\* the value the indexer reads for a field: the field, stripped
ReadsBack(found, value) ==
    IsSome(found) /\ (~Contains(value, <<"}">>) => found[1] = Strip(value))

\* C4: the text returned by convert_pdf begins with the title tag, then the
\* artist, key, tempo and time tags in that order, each present exactly when
\* its field is not empty (time is 4/4 when the first page has no Time:
\* pattern), then one blank line, and the first section tag comes right after
\* that blank line; the title, artist and key tags are single lines among the
\* first ten, and the indexer finds each of them there.
C4_HeaderBlock ==
    pc \in {"converted", "done", "indexed"} =>
        LET lines == SplitLines(result)
            n     == Len(HeaderBlock)
        IN  /\ TimeStarts(pdf.pages[1].text) = {} => metadata.time = DefaultTime
            /\ Len(metadata.time) > 0
            /\ n <= 5
            /\ Len(lines) >= n + 1
            /\ SubSeq(lines, 1, n) = HeaderBlock
            /\ lines[n + 1] = <<>>
            /\ \A i \in 1..Len(lines) : IsSectionTag(lines[i]) => i >= n + 2
            /\ Len(all_sections) > 0 => IsSectionTag(lines[n + 2])
            /\ pc = "indexed" =>
                 LET found == index_extract_metadata(output)
                 IN  /\ ReadsBack(found.title, metadata.title)
                     /\ IF Len(metadata.artist) > 0
                        THEN ReadsBack(found.artist, metadata.artist)
                        ELSE found.artist = NoValue
                     /\ IF Len(metadata.key) > 0
                        THEN ReadsBack(found.key, metadata.key)
                        ELSE found.key = NoValue

\* an indexed conversion whose record has an artist, a tempo and a Time:
\* value, with a section after the header block
C4_Witness ==
    /\ pc = "indexed"
    /\ Len(metadata.artist) > 0 /\ Len(metadata.key) > 0
    /\ Len(metadata.tempo) > 0 /\ metadata.time # DefaultTime
    /\ Len(all_sections) > 0
    /\ song.artist = metadata.artist /\ song.key = metadata.key

\* an indexed conversion whose record has neither key nor tempo
C4_WitnessOmitted ==
    /\ pc = "indexed"
    /\ Len(metadata.artist) > 0 /\ Len(metadata.key) = 0
    /\ Len(metadata.tempo) = 0 /\ metadata.time = DefaultTime
    /\ Len(all_sections) > 0

\* where the header row of section VERSE n stands in the document:
\* <<page, column, top>>, column 0 left of the middle of the page and 1 right
WordPlaces ==
    UNION {{<<p, i>> : i \in 1..Len(pdf.pages[p].words)} :
              p \in 1..Len(pdf.pages)}

HeaderPlaces(n) ==
    {<<pi[1],
       IF pdf.pages[pi[1]].words[pi[2]].x0 < 306 THEN 0 ELSE 1,
       pdf.pages[pi[1]].words[pi[2]].top>> :
        pi \in {pj \in WordPlaces :
                   /\ pdf.pages[pj[1]].words[pj[2]].text = IntStr(n)
                   /\ pdf.pages[pj[1]].words[pj[2]].size = 1480}}

\* the number n of the section tag {section: Verse n}, 0 for any other line
VerseNumber(line) ==
    LET ns == {n \in 1..(4 * MaxPages) :
                  line = Tag(TagSection, <<"V","e","r","s","e"," ">> \o IntStr(n))}
    IN  IF ns = {} THEN 0 ELSE CHOOSE n \in ns : TRUE

SectionTags ==
    SelectSeqBy(OutputLines,
                [i \in 1..Len(OutputLines) |-> IsSectionTag(OutputLines[i])])

Before(a, b) ==
    \/ a[1] < b[1]
    \/ a[1] = b[1] /\ a[2] < b[2]
    \/ a[1] = b[1] /\ a[2] = b[2] /\ a[3] < b[3]

\* C5: the section tags of the written output stand in the order of their
\* header rows: top to bottom within a column, the left column of a page
\* before its right column, page k before page k+1.
C5_SectionsInHeaderOrder ==
    (Written /\ pdf \notin EndToEndDocs) =>
        LET tags   == SectionTags
            places == [i \in 1..Len(tags) |-> HeaderPlaces(VerseNumber(tags[i]))]
        IN  /\ \A i \in 1..Len(tags) :
                  /\ VerseNumber(tags[i]) > 0
                  /\ Cardinality(places[i]) = 1
            /\ \A i, j \in 1..Len(tags) :
                  i < j => \A a \in places[i], b \in places[j] : Before(a, b)

\* a written two-page document with two sections in each of its four columns
C5_Witness ==
    /\ Written
    /\ Len(pdf.pages) = 2
    /\ Len(SectionTags) = 8
    /\ \A c \in {0, 1}, p \in {1, 2} :
          \E n, m \in 1..8 :
              /\ n # m
              /\ \E a \in HeaderPlaces(n), b \in HeaderPlaces(m) :
                    a[1] = p /\ a[2] = c /\ b[1] = p /\ b[2] = c


---------------------------------------------------------------------------
(* The merge pass of parse_column on the lines of one section              *)

MaxLines == 4

LineKinds == {"dynamics", "chords", "lyrics", "both"}

\* the line of a kind at position i of a section, as the row loop appends it
\* (lines 291 and 296-300); the x of its spans tells the positions apart
LineOfKind(kind, i) ==
    CASE kind = "dynamics" -> DynamicsLine(<<"B","u","i","l","d">> \o IntStr(i))
      [] kind = "chords" ->
             ChordLine(<<[text |-> TextG, x |-> 100 * i + 40],
                         [text |-> TextD, x |-> 100 * i + 90]>>, <<>>)
      [] kind = "lyrics" ->
             ChordLine(<<>>, <<[text |-> TextAmaz, x |-> 100 * i + 40],
                               [text |-> TextIng, x |-> 100 * i + 90]>>)
      [] kind = "both" ->
             ChordLine(<<[text |-> TextD, x |-> 100 * i + 60]>>,
                       <<[text |-> <<"g","r","a","c","e">>, x |-> 100 * i + 40]>>)

SectionLineInputs ==
    UNION {{[i \in 1..n |-> LineOfKind(kinds[i], i)] :
               kinds \in [1..n -> LineKinds]} : n \in 0..MaxLines}

MergeInit ==
    /\ pc = "lines"
    /\ section_lines \in SectionLineInputs
    /\ merged_lines = <<>> /\ merged_again = <<>>
    /\ ClassifyIdle /\ NameIdle /\ LineIdle /\ ColumnIdle /\ ConvertIdle

\* lines 306-336 for one section
MergeLines ==
    /\ pc = "lines"
    /\ merged_lines' = merge_lines(section_lines)
    /\ pc' = "merged"
    /\ UNCHANGED <<section_lines, merged_again>>
    /\ UNCHANGED <<classifyVars, nameVars, lineVars, columnVars, convertVars>>

\* the same pass over its own result
MergeAgain ==
    /\ pc = "merged"
    /\ merged_again' = merge_lines(merged_lines)
    /\ pc' = "remerged"
    /\ UNCHANGED <<section_lines, merged_lines>>
    /\ UNCHANGED <<classifyVars, nameVars, lineVars, columnVars, convertVars>>

MergeNext == MergeLines \/ MergeAgain

SpecMerge == MergeInit /\ [][MergeNext]_vars

IsDynamics(l)  == l.type = "dynamics"
IsChordOnly(l) == ~IsDynamics(l) /\ Len(l.chords) > 0 /\ Len(l.lyrics) = 0
HasLyrics(l)   == ~IsDynamics(l) /\ Len(l.lyrics) > 0

\* the chord-only lines directly followed by a line with lyrics
MergeHeads(ls) ==
    {i \in 1..(Len(ls) - 1) : IsChordOnly(ls[i]) /\ HasLyrics(ls[i + 1])}

\* what the pass is to return: every head replaced, with its successor, by
\* one line; every other line as it is
MergedAsDescribed(ls) ==
    SelectSeqBy(
        [i \in 1..Len(ls) |->
            IF i \in MergeHeads(ls)
            THEN [type |-> "chords", text |-> <<>>,
                  chords |-> ls[i].chords \o ls[i + 1].chords,
                  lyrics |-> ls[i + 1].lyrics]
            ELSE ls[i]],
        [i \in 1..Len(ls) |-> (i - 1) \notin MergeHeads(ls)])

\* the chord spans, the lyric spans and the dynamics texts of lines, in order
RECURSIVE AllChords(_)
AllChords(ls) ==
    IF Len(ls) = 0 THEN <<>> ELSE ls[1].chords \o AllChords(Tail(ls))

RECURSIVE AllLyrics(_)
AllLyrics(ls) ==
    IF Len(ls) = 0 THEN <<>> ELSE ls[1].lyrics \o AllLyrics(Tail(ls))

RECURSIVE AllDynamics(_)
AllDynamics(ls) ==
    IF Len(ls) = 0 THEN <<>>
    ELSE (IF IsDynamics(ls[1]) THEN <<ls[1].text>> ELSE <<>>)
         \o AllDynamics(Tail(ls))

\* C11: the merge pass replaces each chord-only line whose next line is not
\* a dynamics marker and has lyrics, together with that next line, by one
\* line holding this line's chords, then the next line's chords, and the next
\* line's lyrics; every other line (a chord-only line before a dynamics line,
\* before another chord-only line or at the end, a dynamics line, a line with
\* lyrics) passes unchanged; no chord or lyric span is lost or reordered.
C11_MergePass ==
    pc \in {"merged", "remerged"} =>
        /\ merged_lines = MergedAsDescribed(section_lines)
        /\ AllChords(merged_lines) = AllChords(section_lines)
        /\ AllLyrics(merged_lines) = AllLyrics(section_lines)
        /\ AllDynamics(merged_lines) = AllDynamics(section_lines)
        /\ MergeHeads(section_lines) = {} => merged_lines = section_lines

\* a merged section of four lines: a chord-only line kept before a dynamics
\* line, and a chord-only line merged with a line of chords and lyrics
C11_Witness ==
    /\ pc = "merged"
    /\ Len(section_lines) = 4
    /\ IsChordOnly(section_lines[1]) /\ IsDynamics(section_lines[2])
    /\ IsChordOnly(section_lines[3])
    /\ HasLyrics(section_lines[4]) /\ Len(section_lines[4].chords) > 0
    /\ Len(merged_lines) = 3
    /\ merged_lines[1] = section_lines[1]
    /\ Len(merged_lines[3].chords) = 3

\* C12: after the merge pass no chord-only line is directly followed by a
\* line with lyrics, and a second pass over the result changes nothing.
C12_MergePassIsFinal ==
    /\ pc \in {"merged", "remerged"} => MergeHeads(merged_lines) = {}
    /\ pc = "remerged" => merged_again = merged_lines

=============================================================================
